---- MODULE Spec2Model ----
(***************************************************************************)
(* Model of the resultish crate (src/src/lib.rs): the three-variant enum   *)
(* Resultish<T, E> = Ok(T) | Err(E) | Both(T, E), its conversions to and   *)
(* from Result<T, E>, its accessors, map / map_err, and the comparison     *)
(* derived for it.  A caller holds one value x and applies the operations  *)
(* of the crate to it; every application records its input and its output. *)
(***************************************************************************)
EXTENDS Integers, FiniteSets, Sequences, TLC

(* x      the Resultish the caller holds                                    *)
(* origin the Result x was built from by From, while x is still that value *)
(* op     name of the last operation called                                *)
(* arg    its input (self, or the Result given to from)                    *)
(* fn     the closure given to map / map_err                               *)
(* other  the right-hand operand of cmp / eq                               *)
(* out    its return value                                                 *)
(* chain  input and closure of the map that directly preceded a map        *)
VARIABLES x, origin, op, arg, fn, other, out, chain

vars == <<x, origin, op, arg, fn, other, out, chain>>

(* Payload bounds: T = 0..MaxT, E = 0..MaxE. *)
MaxT == 1
MaxE == 1

T == 0 .. MaxT
E == 0 .. MaxE

(* ---------------- the enum and the std types it converts to ------------ *)

Ok(ok) == [tag |-> "Ok", ok |-> ok]
Err(err) == [tag |-> "Err", err |-> err]
Both(ok, err) == [tag |-> "Both", ok |-> ok, err |-> err]

Resultish ==
    {Ok(t) : t \in T} \cup {Err(e) : e \in E}
        \cup {Both(t, e) : t \in T, e \in E}

ResultOk(v) == [res |-> "Ok", val |-> v]
ResultErr(v) == [res |-> "Err", val |-> v]
Result == {ResultOk(t) : t \in T} \cup {ResultErr(e) : e \in E}

Some(v) == [some |-> TRUE, val |-> v]
None == [some |-> FALSE]

(* Placeholder for a slot the last operation did not use. *)
Unused == [unused |-> TRUE]

(* The closures handed to map and map_err: every total function. *)
MapOps == [T -> T]
MapErrOps == [E -> E]

(* ---------------- the operations, as the code computes them ------------ *)

has_ok_NoBoth(self) == self.tag = "Ok"
has_ok(self) == self.tag \in {"Ok", "Both"}

has_err(self) == self.tag \in {"Err", "Both"}

lenient_BothErr(self) ==
    CASE self.tag = "Ok" -> ResultOk(self.ok)
      [] self.tag = "Err" -> ResultErr(self.err)
      [] self.tag = "Both" -> ResultErr(self.err)
lenient(self) ==
    CASE self.tag = "Ok" -> ResultOk(self.ok)
      [] self.tag = "Err" -> ResultErr(self.err)
      [] self.tag = "Both" -> ResultOk(self.ok)

lenient_err(self) ==
    CASE self.tag = "Ok" -> None
      [] self.tag = "Err" -> Some(self.err)
      [] self.tag = "Both" -> None

lenient_ok(self) ==
    CASE self.tag = "Ok" -> Some(self.ok)
      [] self.tag = "Err" -> None
      [] self.tag = "Both" -> Some(self.ok)

map_SkipBoth(self, f) ==
    CASE self.tag = "Ok" -> Ok(f[self.ok])
      [] self.tag = "Err" -> Err(self.err)
      [] self.tag = "Both" -> Both(self.ok, self.err)
map_DropErr(self, f) ==
    CASE self.tag = "Ok" -> Ok(f[self.ok])
      [] self.tag = "Err" -> Err(self.err)
      [] self.tag = "Both" -> Ok(f[self.ok])
map(self, f) ==
    CASE self.tag = "Ok" -> Ok(f[self.ok])
      [] self.tag = "Err" -> Err(self.err)
      [] self.tag = "Both" -> Both(f[self.ok], self.err)

map_err_SkipBoth(self, g) ==
    CASE self.tag = "Ok" -> Ok(self.ok)
      [] self.tag = "Err" -> Err(g[self.err])
      [] self.tag = "Both" -> Both(self.ok, self.err)
map_err(self, g) ==
    CASE self.tag = "Ok" -> Ok(self.ok)
      [] self.tag = "Err" -> Err(g[self.err])
      [] self.tag = "Both" -> Both(self.ok, g[self.err])

strict_BothOk(self) ==
    CASE self.tag = "Ok" -> ResultOk(self.ok)
      [] self.tag = "Err" -> ResultErr(self.err)
      [] self.tag = "Both" -> ResultOk(self.ok)
strict(self) ==
    CASE self.tag = "Ok" -> ResultOk(self.ok)
      [] self.tag = "Err" -> ResultErr(self.err)
      [] self.tag = "Both" -> ResultErr(self.err)

strict_err(self) ==
    CASE self.tag = "Ok" -> None
      [] self.tag = "Err" -> Some(self.err)
      [] self.tag = "Both" -> Some(self.err)

strict_ok_LikeLenient(self) ==
    CASE self.tag = "Ok" -> Some(self.ok)
      [] self.tag = "Err" -> None
      [] self.tag = "Both" -> Some(self.ok)
strict_ok(self) ==
    CASE self.tag = "Ok" -> Some(self.ok)
      [] self.tag = "Err" -> None
      [] self.tag = "Both" -> None

tuple_BothLosesErr(self) ==
    CASE self.tag = "Ok" -> <<Some(self.ok), None>>
      [] self.tag = "Err" -> <<None, Some(self.err)>>
      [] self.tag = "Both" -> <<Some(self.ok), None>>
tuple(self) ==
    CASE self.tag = "Ok" -> <<Some(self.ok), None>>
      [] self.tag = "Err" -> <<None, Some(self.err)>>
      [] self.tag = "Both" -> <<Some(self.ok), Some(self.err)>>

from_ErrAsBoth(value) ==
    CASE value.res = "Ok" -> Ok(value.val)
      [] value.res = "Err" -> Both(value.val, value.val)
from(value) ==
    CASE value.res = "Ok" -> Ok(value.val)
      [] value.res = "Err" -> Err(value.val)

(* Result::ok and Result::err of the standard library, which the docs of   *)
(* the four accessors name as their definition.                            *)
Result_ok(r) == IF r.res = "Ok" THEN Some(r.val) ELSE None
Result_err(r) == IF r.res = "Err" THEN Some(r.val) ELSE None

(* ---------------- the derived PartialEq / Ord --------------------------- *)

(* Position of a variant in the enum's declaration, which the derived      *)
(* ordering compares first.                                                *)
discriminant_BothBeforeErr(self) ==
    CASE self.tag = "Ok" -> 0
      [] self.tag = "Both" -> 1
      [] self.tag = "Err" -> 2
discriminant(self) ==
    CASE self.tag = "Ok" -> 0
      [] self.tag = "Err" -> 1
      [] self.tag = "Both" -> 2

CmpInt(a, b) == IF a < b THEN "Less" ELSE IF a > b THEN "Greater" ELSE "Equal"

(* The fields of a variant in declaration order; compared lexicographically. *)
Fields(self) ==
    CASE self.tag = "Ok" -> <<self.ok>>
      [] self.tag = "Err" -> <<self.err>>
      [] self.tag = "Both" -> <<self.ok, self.err>>

RECURSIVE CmpFields(_, _)
CmpFields(a, b) ==
    IF a = <<>> THEN "Equal"
    ELSE IF CmpInt(Head(a), Head(b)) # "Equal" THEN CmpInt(Head(a), Head(b))
    ELSE CmpFields(Tail(a), Tail(b))

cmp(self, rhs) ==
    IF discriminant(self) # discriminant(rhs)
    THEN CmpInt(discriminant(self), discriminant(rhs))
    ELSE CmpFields(Fields(self), Fields(rhs))

eq(self, rhs) ==
    /\ discriminant(self) = discriminant(rhs)
    /\ \A i \in 1 .. Len(Fields(self)) : Fields(self)[i] = Fields(rhs)[i]

(* ---------------- the caller ------------------------------------------- *)

Init ==
    /\ x \in Resultish
    /\ origin = Unused
    /\ op = "new"
    /\ arg = Unused
    /\ fn = Unused
    /\ other = Unused
    /\ out = Unused
    /\ chain = Unused

(* An operation that reads x and returns something else than a Resultish. *)
Query(name, result) ==
    /\ op' = name
    /\ arg' = x
    /\ out' = result
    /\ fn' = Unused
    /\ other' = Unused
    /\ chain' = Unused
    /\ UNCHANGED <<x, origin>>

From ==
    \E value \in Result :
        /\ x' = from(value)
        /\ origin' = value
        /\ op' = "from"
        /\ arg' = value
        /\ out' = from(value)
        /\ fn' = Unused
        /\ other' = Unused
        /\ chain' = Unused

HasOk == Query("has_ok", has_ok(x))
HasErr == Query("has_err", has_err(x))
Lenient == Query("lenient", lenient(x))
LenientErr == Query("lenient_err", lenient_err(x))
LenientOk == Query("lenient_ok", lenient_ok(x))
Strict == Query("strict", strict(x))
StrictErr == Query("strict_err", strict_err(x))
StrictOk == Query("strict_ok", strict_ok(x))
Tuple == Query("tuple", tuple(x))

(* map consumes the value and the caller keeps the mapped one; a map that  *)
(* directly follows a map remembers the first one's input and closure.     *)
Map ==
    \E f \in MapOps :
        /\ x' = map(x, f)
        /\ origin' = Unused
        /\ op' = "map"
        /\ arg' = x
        /\ fn' = f
        /\ out' = map(x, f)
        /\ other' = Unused
        /\ chain' = IF op = "map" THEN [arg |-> arg, fn |-> fn] ELSE Unused

MapErr ==
    \E g \in MapErrOps :
        /\ x' = map_err(x, g)
        /\ origin' = Unused
        /\ op' = "map_err"
        /\ arg' = x
        /\ fn' = g
        /\ out' = map_err(x, g)
        /\ other' = Unused
        /\ chain' = Unused

Cmp ==
    \E rhs \in Resultish :
        /\ op' = "cmp"
        /\ arg' = x
        /\ other' = rhs
        /\ out' = cmp(x, rhs)
        /\ fn' = Unused
        /\ chain' = Unused
        /\ UNCHANGED <<x, origin>>

Eq ==
    \E rhs \in Resultish :
        /\ op' = "eq"
        /\ arg' = x
        /\ other' = rhs
        /\ out' = eq(x, rhs)
        /\ fn' = Unused
        /\ chain' = Unused
        /\ UNCHANGED <<x, origin>>

Next ==
    \/ From
    \/ HasOk
    \/ HasErr
    \/ Lenient
    \/ LenientErr
    \/ LenientOk
    \/ Strict
    \/ StrictErr
    \/ StrictOk
    \/ Tuple
    \/ Map
    \/ MapErr
    \/ Cmp
    \/ Eq

Spec == Init /\ [][Next]_vars

(* ======================= properties ==================================== *)

(* C1: lenient() maps Ok(t) to Result::Ok(t), Err(e) to Result::Err(e) and *)
(* Both(t, e) to Result::Ok(t), discarding the error value; the payload    *)
(* returned is the one the input holds.                                    *)
C1_Lenient ==
    op = "lenient" =>
        /\ arg.tag = "Ok" => out = ResultOk(arg.ok)
        /\ arg.tag = "Err" => out = ResultErr(arg.err)
        /\ arg.tag = "Both" => out = ResultOk(arg.ok)

C1_Witness == op = "lenient" /\ arg = Both(1, 0) /\ out = ResultOk(1)

(* C2: strict() maps Ok(t) to Result::Ok(t), Err(e) to Result::Err(e) and  *)
(* Both(t, e) to Result::Err(e), discarding the success value; strict(x)   *)
(* equals lenient(x) exactly when x is not Both.                           *)
C2_Strict ==
    op = "strict" =>
        /\ arg.tag = "Ok" => out = ResultOk(arg.ok)
        /\ arg.tag = "Err" => out = ResultErr(arg.err)
        /\ arg.tag = "Both" => out = ResultErr(arg.err)
        /\ (out = lenient(arg)) <=> (arg.tag # "Both")

C2_Witness ==
    op = "strict" /\ arg = Both(1, 0) /\ out = ResultErr(0) /\ out # lenient(arg)

(* C3: has_ok(x) is true iff x is Ok or Both, has_err(x) is true iff x is  *)
(* Err or Both: Ok gives (true, false), Err gives (false, true), Both      *)
(* gives (true, true), and no value gives (false, false).                  *)
C3_HasOkHasErr ==
    /\ op = "has_ok" =>
        /\ out <=> (arg.tag = "Ok" \/ arg.tag = "Both")
        /\ arg.tag = "Ok" => <<out, has_err(arg)>> = <<TRUE, FALSE>>
        /\ arg.tag = "Err" => <<out, has_err(arg)>> = <<FALSE, TRUE>>
        /\ arg.tag = "Both" => <<out, has_err(arg)>> = <<TRUE, TRUE>>
        /\ <<out, has_err(arg)>> # <<FALSE, FALSE>>
    /\ op = "has_err" =>
        /\ out <=> (arg.tag = "Err" \/ arg.tag = "Both")
        /\ arg.tag = "Ok" => <<has_ok(arg), out>> = <<TRUE, FALSE>>
        /\ arg.tag = "Err" => <<has_ok(arg), out>> = <<FALSE, TRUE>>
        /\ arg.tag = "Both" => <<has_ok(arg), out>> = <<TRUE, TRUE>>
        /\ <<has_ok(arg), out>> # <<FALSE, FALSE>>

C3_Witness == op = "has_ok" /\ arg.tag = "Both" /\ out = TRUE

(* C4: tuple() is a lossless decomposition: Ok(t) gives (Some(t), None),   *)
(* Err(e) gives (None, Some(e)), Both(t, e) gives (Some(t), Some(e)); it   *)
(* never returns (None, None) and no other value gives the same tuple.     *)
C4_Tuple ==
    op = "tuple" =>
        /\ arg.tag = "Ok" => out = <<Some(arg.ok), None>>
        /\ arg.tag = "Err" => out = <<None, Some(arg.err)>>
        /\ arg.tag = "Both" => out = <<Some(arg.ok), Some(arg.err)>>
        /\ out # <<None, None>>
        /\ \A v \in Resultish : tuple(v) = out => v = arg

C4_Witness == op = "tuple" /\ arg = Both(0, 1) /\ out = <<Some(0), Some(1)>>

(* C5: Resultish::from(r) is Ok(t) for Result::Ok(t) and Err(e) for        *)
(* Result::Err(e), never Both, and lenient() and strict() of the value     *)
(* built from r both return r.                                             *)
C5_FromRoundTrip ==
    /\ op = "from" =>
        /\ arg.res = "Ok" => out = Ok(arg.val)
        /\ arg.res = "Err" => out = Err(arg.val)
        /\ out.tag # "Both"
        /\ x = out
    /\ (op \in {"lenient", "strict"} /\ origin # Unused) => out = origin

C5_Witness ==
    op = "strict" /\ origin = ResultErr(1) /\ arg = Err(1) /\ out = ResultErr(1)

(* C6: lenient_ok(x) = lenient(x).ok(), lenient_err(x) = lenient(x).err(), *)
(* strict_ok(x) = strict(x).ok(), strict_err(x) = strict(x).err():         *)
(* lenient_ok is Some(t) for Ok and Both, lenient_err is Some(e) only for  *)
(* Err, strict_ok is Some(t) only for Ok, strict_err is Some(e) for Err    *)
(* and Both.                                                               *)
C6_Accessors ==
    /\ op = "lenient_ok" =>
        /\ out = Result_ok(lenient(arg))
        /\ out = IF arg.tag \in {"Ok", "Both"} THEN Some(arg.ok) ELSE None
    /\ op = "lenient_err" =>
        /\ out = Result_err(lenient(arg))
        /\ out = IF arg.tag = "Err" THEN Some(arg.err) ELSE None
    /\ op = "strict_ok" =>
        /\ out = Result_ok(strict(arg))
        /\ out = IF arg.tag = "Ok" THEN Some(arg.ok) ELSE None
    /\ op = "strict_err" =>
        /\ out = Result_err(strict(arg))
        /\ out = IF arg.tag \in {"Err", "Both"} THEN Some(arg.err) ELSE None

C6_Witness == op = "strict_ok" /\ arg.tag = "Both" /\ out = None

(* C7: map(x, f) has the variant of x, holds f(t) where x holds the        *)
(* success payload t, and holds the error payload of x unchanged.          *)
C7_Map ==
    op = "map" =>
        /\ out.tag = arg.tag
        /\ arg.tag = "Ok" => out = Ok(fn[arg.ok])
        /\ arg.tag = "Err" => out = Err(arg.err)
        /\ arg.tag = "Both" => out = Both(fn[arg.ok], arg.err)
        /\ x = out

C7_Witness ==
    op = "map" /\ arg = Both(0, 1) /\ fn[0] = 1 /\ out = Both(1, 1)

(* C8: map obeys the functor laws on all three variants: mapping with the  *)
(* identity returns the input, and mapping with f and then with g equals   *)
(* mapping once with the composition g after f.                            *)
C8_MapLaws ==
    op = "map" =>
        /\ fn = [t \in T |-> t] => out = arg
        /\ chain # Unused =>
              out = map(chain.arg, [t \in T |-> fn[chain.fn[t]]])

C8_Witness ==
    /\ op = "map"
    /\ chain # Unused
    /\ chain.arg.tag = "Both"
    /\ chain.fn # [t \in T |-> t]
    /\ fn # [t \in T |-> t]
    /\ out # chain.arg

OrderByRank(rank, a, b) ==
    IF rank[a.tag] # rank[b.tag] THEN CmpInt(rank[a.tag], rank[b.tag])
    ELSE IF a.tag = "Ok" THEN CmpInt(a.ok, b.ok)
    ELSE IF a.tag = "Err" THEN CmpInt(a.err, b.err)
    ELSE IF a.ok # b.ok THEN CmpInt(a.ok, b.ok)
    ELSE CmpInt(a.err, b.err)

Reverse(o) ==
    IF o = "Less" THEN "Greater" ELSE IF o = "Greater" THEN "Less" ELSE "Equal"

(* C10 as stated: the comparison follows the variant order Ok < Both <     *)
(* Err, whatever the payloads, and orders one variant by its payloads.     *)
C10_OkBothErrOrder ==
    op = "cmp" =>
        out = OrderByRank([t \in {"Ok", "Both", "Err"} |->
                  IF t = "Ok" THEN 0 ELSE IF t = "Both" THEN 1 ELSE 2],
                  arg, other)

(* C10 amended: the comparison is a total order that follows the order in  *)
(* which the variants are declared, Ok < Err < Both, whatever the          *)
(* payloads; two values of one variant are ordered by their payloads;      *)
(* values are equal only when they are the same variant with equal         *)
(* payloads.                                                               *)
C10_DeclarationOrder ==
    /\ op = "cmp" =>
        /\ out = OrderByRank([t \in {"Ok", "Both", "Err"} |->
                     IF t = "Ok" THEN 0 ELSE IF t = "Err" THEN 1 ELSE 2],
                     arg, other)
        /\ (out = "Equal") <=> (arg = other)
        /\ cmp(other, arg) = Reverse(out)
        /\ \A z \in Resultish :
              (out = "Less" /\ cmp(other, z) = "Less") => cmp(arg, z) = "Less"
    /\ op = "eq" =>
        /\ out <=> (arg = other)
        /\ out <=> (cmp(arg, other) = "Equal")

C10_Witness ==
    op = "cmp" /\ arg = Both(0, 0) /\ other = Err(1) /\ out = "Greater"

====
